---- MODULE Spec2Model ----
(***************************************************************************)
(* A model of the amx-rs high-level wrapper (trait Amx, src/src/lib.rs),   *)
(* its register file (X: 8x64 bytes, Y: 8x64 bytes, Z: 64x64 bytes), the   *)
(* genlut property test (src/tests/genlut.rs) and the multithreaded stress *)
(* example (src/examples/multithreaded.rs).                                *)
(*                                                                         *)
(* The modules emu, genlut, load_store, ops and regs are declared in       *)
(* lib.rs but their code is not part of the modelled files: the primitives *)
(* they implement (ldx/ldy/ldz, stx/sty/stz, mac16, genlut) are modelled   *)
(* from the specification's description of them.                           *)
(***************************************************************************)
EXTENDS Integers, Sequences, FiniteSets, TLC

VARIABLES
  x,        \* register file X, 512 bytes (row r is bytes 64r .. 64r+63)
  y,        \* register file Y, 512 bytes
  z,        \* register file Z, 4096 bytes
  debug,    \* TRUE when the build keeps debug_assert! (debug_assertions)
  failed,   \* "none", or the check that aborted the program
  call,     \* the last high-level call: [op, args]
  prev,     \* the high-level call before it
  issued,   \* the primitives the last high-level call issued, in order
  ret,      \* the bytes the last store512 / read_x / read_y / read_z returned
  loaded,   \* history: per file and row, the buffer last loaded (or NoBuf)
  inp,      \* the inputs a driver program drew
  pc,       \* the driver program's position
  ncalls,   \* number of calls made so far
  tctx,     \* stress example: each thread's own register file
  tpos      \* stress example: each thread's number of completed calls

vars == <<x, y, z, debug, failed, call, prev, issued, ret, loaded, inp, pc, ncalls,
          tctx, tpos>>

-----------------------------------------------------------------------------
(* Geometry of the register file.                                          *)

RowBytes == 64
XRows == 8
YRows == 8
ZRows == 64

Rows(file) == CASE file = "x" -> XRows [] file = "y" -> YRows [] file = "z" -> ZRows
FileBytes(file) == Rows(file) * RowBytes

-----------------------------------------------------------------------------
(* Bounds of the model.                                                    *)

MaxSeed == 1      \* initial register contents are Junk(1) .. Junk(MaxSeed)
MaxLoads == 2     \* load512 calls per run of SpecLoad
MaxVec == 2       \* pseudo-random i16 vectors of SpecOuter, besides the example's
MaxThreads == 2   \* threads of the stress example
MaxIter == 10     \* calls per thread of the stress example

-----------------------------------------------------------------------------
(* Machine arithmetic.                                                     *)

Pow2(n) == 2 ^ n

\* a | b on non-negative integers
RECURSIVE BitOr(_, _)
BitOr(a, b) ==
  IF a = 0 THEN b
  ELSE IF b = 0 THEN a
  ELSE (IF a % 2 = 1 \/ b % 2 = 1 THEN 1 ELSE 0) + 2 * BitOr(a \div 2, b \div 2)

\* a << n (the operands stay far below 2^64, nothing is shifted out)
Shl(a, n) == a * Pow2(n)

\* (w >> n) & (2^k - 1)
Bits(w, n, k) == (w \div Pow2(n)) % Pow2(k)

\* 16-bit wrapping product of two 16-bit patterns, without leaving 32 bits
MulWrap16(a, b) ==
  ((a % 256) * b + 256 * (((a \div 256) * (b % 256)) % 256)) % 65536

\* an i16 as its 16-bit pattern, and back
ToU16(v) == v % 65536
ToI16(u) == IF u >= 32768 THEN u - 65536 ELSE u

\* i16 wrapping multiplication (Rust's wrapping_mul)
WrappingMulI16(a, b) == ToI16(MulWrap16(ToU16(a), ToU16(b)))

\* a slice of i16 seen as bytes through as_ptr (little endian)
I16Bytes(v) ==
  [k \in 0 .. 2 * Len(v) - 1 |->
     LET u == ToU16(v[(k \div 2) + 1])
     IN IF k % 2 = 0 THEN u % 256 ELSE u \div 256]

\* the 16-bit pattern stored little endian at byte k of f (indices wrap at n)
Word16(f, k, n) == f[k % n] + 256 * f[(k + 1) % n]

-----------------------------------------------------------------------------
(* Register contents and buffers the model draws from.                     *)

Zero(n) == [k \in 0 .. n - 1 |-> 0]
Junk(s, n) == [k \in 0 .. n - 1 |-> (s * (k + 3) * 29 + k * k + (k \div 64) * 7) % 256]

NoBuf == 0 - 1
None == 0 - 1

UnwrapOrDefault(o) == IF o = None THEN 0 ELSE o
IsNone(o) == o = None

NoCall == [op |-> "none", args |-> <<>>]

-----------------------------------------------------------------------------
(* The primitives of the operation set (trait AmxOps), on the emulated     *)
(* register file.                                                          *)

\* ldx / ldy / ldz: 64 bytes from memory into one row
ld(f, row, buf) ==
  [k \in DOMAIN f |-> IF k \div RowBytes = row THEN buf[k % RowBytes] ELSE f[k]]

\* stx / sty / stz: one row, 64 bytes, to memory
st(f, row) == [j \in 0 .. RowBytes - 1 |-> f[row * RowBytes + j]]

\* mac16: the operand word's fields as the primitive reads them
MacY(w) == Bits(w, 0, 9)
MacX(w) == Bits(w, 10, 9)
MacZ(w) == Bits(w, 20, 6)
MacNoAcc(w) == Bits(w, 27, 1) = 1
MacSkipX(w) == Bits(w, 28, 1) = 1
MacSkipY(w) == Bits(w, 29, 1) = 1

\* mac16: z[2j + (z_row & 1)][i] (+)= x[i] * y[j] on 16-bit lanes; an excluded
\* operand is left out of the product (the other one is broadcast)
mac16(xx, yy, zz, w) ==
  LET p == MacZ(w) % 2
      xv == [i \in 0 .. 31 |-> Word16(xx, MacX(w) + 2 * i, FileBytes("x"))]
      yv == [j \in 0 .. 31 |-> Word16(yy, MacY(w) + 2 * j, FileBytes("y"))]
      prod(i, j) ==
        IF MacSkipX(w) /\ MacSkipY(w) THEN 0
        ELSE IF MacSkipX(w) THEN yv[j]
        ELSE IF MacSkipY(w) THEN xv[i]
        ELSE MulWrap16(xv[i], yv[j])
      old(r, i) == IF MacNoAcc(w) THEN 0 ELSE Word16(zz, r * RowBytes + 2 * i, FileBytes("z"))
      new == [j \in 0 .. 31 |-> [i \in 0 .. 31 |->
                (prod(i, j) + old(2 * j + p, i)) % 65536]]
  IN [k \in DOMAIN zz |->
        LET r == k \div RowBytes
            c == k % RowBytes
        IN IF r % 2 # p THEN zz[k]
           ELSE IF c % 2 = 0 THEN new[r \div 2][c \div 2] % 256
           ELSE new[r \div 2][c \div 2] \div 256]

-----------------------------------------------------------------------------
(* trait Amx: load512 and store512 (row.load512 / row.store512).           *)

File(file) == CASE file = "x" -> x [] file = "y" -> y [] file = "z" -> z

load512(file, row, buf) ==
  /\ call' = [op |-> "load512", args |-> <<file, row>>]
  /\ prev' = call
  /\ ret' = <<>>
  /\ IF row < Rows(file)
     THEN /\ x' = IF file = "x" THEN ld(x, row, buf) ELSE x
          /\ y' = IF file = "y" THEN ld(y, row, buf) ELSE y
          /\ z' = IF file = "z" THEN ld(z, row, buf) ELSE z
          /\ issued' = <<[op |-> "ld" \o file, arg |-> row]>>
          /\ loaded' = [loaded EXCEPT ![file][row] = <<buf>>]
          /\ failed' = "none"
     ELSE /\ failed' = "row"
          /\ issued' = <<>>
          /\ UNCHANGED <<x, y, z, loaded>>

store512(file, row) ==
  /\ call' = [op |-> "store512", args |-> <<file, row>>]
  /\ prev' = call
  /\ IF row < Rows(file)
     THEN /\ ret' = st(File(file), row)
          /\ issued' = <<[op |-> "st" \o file, arg |-> row]>>
          /\ failed' = "none"
     ELSE /\ failed' = "row"
          /\ ret' = <<>>
          /\ issued' = <<>>
  /\ UNCHANGED <<x, y, z, loaded>>

-----------------------------------------------------------------------------
(* trait Amx: read_x, read_y, read_z.  Each fills a MaybeUninit buffer by  *)
(* one store512 per loop index i, at byte offset i * 64, from row i.       *)

Uninit == 0 - 1

\* mutant: the destination advances by 63 bytes per row
ReadOffsetShort(i) == i * 63

\* (ret.as_mut_ptr() as *mut u8).offset(i as isize * 64)
ReadOffset(i) == i * 64

\* the loop index that wrote byte k of the buffer last (the loop runs i
\* upwards, so the largest such i), or Uninit when no store reached it
LastWriter(rows, k) ==
  LET ws == {i \in 0 .. rows - 1 : ReadOffset(i) <= k /\ k < ReadOffset(i) + RowBytes}
  IN IF ws = {} THEN Uninit ELSE CHOOSE i \in ws : \A j \in ws : j <= i

WriterX == [k \in 0 .. XRows * RowBytes - 1 |-> LastWriter(XRows, k)]
WriterY == [k \in 0 .. YRows * RowBytes - 1 |-> LastWriter(YRows, k)]
WriterZ == [k \in 0 .. ZRows * RowBytes - 1 |-> LastWriter(ZRows, k)]
Writer(file) == CASE file = "x" -> WriterX [] file = "y" -> WriterY [] file = "z" -> WriterZ

read_file(file) ==
  /\ call' = [op |-> "read_" \o file, args |-> <<>>]
  /\ prev' = call
  /\ issued' = [i \in 1 .. Rows(file) |-> [op |-> "st" \o file, arg |-> i - 1]]
  /\ ret' = [k \in 0 .. FileBytes(file) - 1 |->
               IF Writer(file)[k] = Uninit THEN Uninit
               ELSE st(File(file), Writer(file)[k])[k - ReadOffset(Writer(file)[k])]]
  /\ failed' = "none"
  /\ UNCHANGED <<x, y, z, loaded>>

read_x == read_file("x")
read_y == read_file("y")
read_z == read_file("z")

-----------------------------------------------------------------------------
(* trait Amx: outer_product_i16_xy_to_z.                                   *)

\* mutant: the offset bounds are checked with <= instead of <
OuterAssertsOffByOne(dbg, xo, yo, z_index) ==
  IF ~dbg THEN "none"
  ELSE IF ~(UnwrapOrDefault(xo) <= 512) THEN "x_offset_bytes"
  ELSE IF ~(UnwrapOrDefault(yo) <= 512) THEN "y_offset_bytes"
  ELSE IF ~(z_index <= 64) THEN "z_index"
  ELSE "none"

\* the three debug_assert! of the method, in order; "none" when all pass
\* (or when the build compiles them out)
OuterAsserts(dbg, xo, yo, z_index) ==
  IF ~dbg THEN "none"
  ELSE IF ~(UnwrapOrDefault(xo) < 512) THEN "x_offset_bytes"
  ELSE IF ~(UnwrapOrDefault(yo) < 512) THEN "y_offset_bytes"
  ELSE IF ~(z_index < 64) THEN "z_index"
  ELSE "none"

B2U(b) == IF b THEN 1 ELSE 0

\* mutant: the accumulate flag is packed without being inverted
OperandWordAccNotInverted(xo, yo, z_index, accumulate) ==
  BitOr(UnwrapOrDefault(yo),
  BitOr(Shl(UnwrapOrDefault(xo), 10),
  BitOr(Shl(z_index, 20),
  BitOr(Shl(B2U(accumulate), 27),
  BitOr(Shl(B2U(IsNone(xo)), 28),
        Shl(B2U(IsNone(yo)), 29))))))

\* mutant: z_index is shifted by 19 instead of 20
OperandWordZShift19(xo, yo, z_index, accumulate) ==
  BitOr(UnwrapOrDefault(yo),
  BitOr(Shl(UnwrapOrDefault(xo), 10),
  BitOr(Shl(z_index, 19),
  BitOr(Shl(B2U(~accumulate), 27),
  BitOr(Shl(B2U(IsNone(xo)), 28),
        Shl(B2U(IsNone(yo)), 29))))))

\* mutant: the exclude flags are set when the offsets are present
OperandWordExcludeInverted(xo, yo, z_index, accumulate) ==
  BitOr(UnwrapOrDefault(yo),
  BitOr(Shl(UnwrapOrDefault(xo), 10),
  BitOr(Shl(z_index, 20),
  BitOr(Shl(B2U(~accumulate), 27),
  BitOr(Shl(B2U(~IsNone(xo)), 28),
        Shl(B2U(~IsNone(yo)), 29))))))

\* mutant: the x offset is shifted by 9 instead of 10
OperandWordXShift9(xo, yo, z_index, accumulate) ==
  BitOr(UnwrapOrDefault(yo),
  BitOr(Shl(UnwrapOrDefault(xo), 9),
  BitOr(Shl(z_index, 20),
  BitOr(Shl(B2U(~accumulate), 27),
  BitOr(Shl(B2U(IsNone(xo)), 28),
        Shl(B2U(IsNone(yo)), 29))))))

\* mutant: z_index is shifted by 21 instead of 20
OperandWordZShift21(xo, yo, z_index, accumulate) ==
  BitOr(UnwrapOrDefault(yo),
  BitOr(Shl(UnwrapOrDefault(xo), 10),
  BitOr(Shl(z_index, 21),
  BitOr(Shl(B2U(~accumulate), 27),
  BitOr(Shl(B2U(IsNone(xo)), 28),
        Shl(B2U(IsNone(yo)), 29))))))

\* the operand word handed to mac16
OperandWord(xo, yo, z_index, accumulate) ==
  BitOr(UnwrapOrDefault(yo),
  BitOr(Shl(UnwrapOrDefault(xo), 10),
  BitOr(Shl(z_index, 20),
  BitOr(Shl(B2U(~accumulate), 27),
  BitOr(Shl(B2U(IsNone(xo)), 28),
        Shl(B2U(IsNone(yo)), 29))))))

outer_product_i16_xy_to_z(xo, yo, z_index, accumulate) ==
  /\ call' = [op |-> "outer_product_i16_xy_to_z",
              args |-> <<xo, yo, z_index, accumulate>>]
  /\ prev' = call
  /\ ret' = <<>>
  /\ failed' = OuterAsserts(debug, xo, yo, z_index)
  /\ IF OuterAsserts(debug, xo, yo, z_index) = "none"
     THEN /\ z' = mac16(x, y, z, OperandWord(xo, yo, z_index, accumulate))
          /\ issued' = <<[op |-> "mac16",
                          arg |-> OperandWord(xo, yo, z_index, accumulate)]>>
     ELSE /\ z' = z
          /\ issued' = <<>>
  /\ UNCHANGED <<x, y, loaded>>

-----------------------------------------------------------------------------
(* trait Amx: lut (genlut::lut), for the type (Normal, Index4, X8): 64     *)
(* 4-bit indices, packed two per byte with the low nibble first, select    *)
(* bytes of the table row; the 64 selected bytes are written to an X row.  *)

LutEntries == 64
IndexBits == 4
\* bytes the index source spans: 64 entries of 4 bits
IndexBytes == (LutEntries * IndexBits) \div 8

\* half-open byte ranges [a, a + n) and [b, b + m) intersect
RangesMeet(a, n, b, m) == a < b + m /\ a + n > b

\* mutant: only the base page of the table row is compared
LutOverlapsBasePage(offset, table) ==
  RangesMeet(offset, IndexBytes, table * RowBytes, RowBytes)

\* the index source meets the table row in the base page or in the page
\* 512 bytes above it
LutOverlaps(offset, table) ==
  \/ RangesMeet(offset, IndexBytes, table * RowBytes, RowBytes)
  \/ RangesMeet(offset, IndexBytes, table * RowBytes + 512, RowBytes)

\* "none", or the validation that rejects the lookup
LutCheck(in_y, offset, table, output) ==
  IF ~(table < XRows) THEN "lut_table"
  ELSE IF ~(output < XRows) THEN "lut_output"
  ELSE IF ~(offset < 512) THEN "lut_offset"
  ELSE IF LutOverlaps(offset, table) THEN "lut_overlap"
  ELSE "none"

\* genlut: the 64 bytes of the lookup's output row
genlut(xx, yy, in_y, offset, table) ==
  [i \in 0 .. LutEntries - 1 |->
     LET src == IF in_y THEN yy ELSE xx
         byte == src[(offset + (i \div 2)) % 512]
         idx == Bits(byte, (i % 2) * IndexBits, IndexBits)
     IN xx[table * RowBytes + idx]]

lut(in_y, offset, table, output) ==
  /\ call' = [op |-> "lut", args |-> <<in_y, offset, table, output>>]
  /\ prev' = call
  /\ ret' = <<>>
  /\ failed' = LutCheck(in_y, offset, table, output)
  /\ IF LutCheck(in_y, offset, table, output) = "none"
     THEN /\ x' = ld(x, output, genlut(x, y, in_y, offset, table))
          /\ issued' = <<[op |-> "genlut",
                          arg |-> <<in_y, offset, table, output>>]>>
     ELSE /\ x' = x
          /\ issued' = <<>>
  /\ UNCHANGED <<y, z, loaded>>

-----------------------------------------------------------------------------
(* Spec: a client on a backend whose registers hold arbitrary bytes makes  *)
(* two outer-product calls, one after the other.                           *)

Seeds == 1 .. MaxSeed
NoLoads == [f \in {"x", "y", "z"} |-> [r \in 0 .. Rows(f) - 1 |-> <<>>]]

XOffsets == {None, 0, 451}
YOffsets == {None, 0, 130}
ZIndices == {0, 1, 62}
ValidArgs == {a \in XOffsets \X YOffsets \X ZIndices \X BOOLEAN :
                \/ a[1] = 0 /\ a[2] = 0
                \/ a[1] = 451 /\ a[2] = None
                \/ a[1] = None /\ a[2] = 130
                \/ a[1] = 451 /\ a[2] = 130}
InvalidArgs == {<<512, 0, 0, FALSE>>, <<None, 600, 1, TRUE>>,
                <<0, None, 64, FALSE>>, <<1024, 0, 0, TRUE>>}
CallArgs == ValidArgs \cup InvalidArgs

Idle ==
  /\ failed = "none" /\ call = NoCall /\ prev = NoCall
  /\ issued = <<>> /\ ret = <<>>
  /\ loaded = NoLoads /\ ncalls = 0
  /\ tctx = <<>> /\ tpos = <<>>

Init ==
  /\ debug \in BOOLEAN
  /\ \E s \in Seeds :
       /\ x = Junk(s, FileBytes("x"))
       /\ y = Junk(s + 5, FileBytes("y"))
       /\ z = Junk(s + 9, FileBytes("z"))
  /\ pc = "first"
  /\ inp = <<>>
  /\ Idle

FirstCall ==
  /\ failed = "none" /\ pc = "first"
  /\ \E a \in CallArgs : outer_product_i16_xy_to_z(a[1], a[2], a[3], a[4])
  /\ pc' = "second"
  /\ UNCHANGED <<debug, inp, ncalls, tctx, tpos>>

SecondCall ==
  /\ failed = "none" /\ pc = "second"
  /\ \E a \in CallArgs : outer_product_i16_xy_to_z(a[1], a[2], a[3], a[4])
  /\ pc' = "done"
  /\ UNCHANGED <<debug, inp, ncalls, tctx, tpos>>

Next == FirstCall \/ SecondCall

Spec == Init /\ [][Next]_vars

-----------------------------------------------------------------------------
(* Properties of outer_product_i16_xy_to_z under Spec.                     *)

IsOuter(c) == c.op = "outer_product_i16_xy_to_z"

\* the documented preconditions of the call
ValidCall(a) ==
  /\ a[1] = None \/ (0 <= a[1] /\ a[1] < 512)
  /\ a[2] = None \/ (0 <= a[2] /\ a[2] < 512)
  /\ 0 <= a[3] /\ a[3] < 64

\* the 16-bit lane i of row r of a Z image
Z16(zz, r, i) == zz[r * RowBytes + 2 * i] + 256 * zz[r * RowBytes + 2 * i + 1]

ZRowOf(zz, r) == [j \in 0 .. RowBytes - 1 |-> zz[r * RowBytes + j]]
ChangedRows(za, zb) == {r \in 0 .. ZRows - 1 : ZRowOf(za, r) # ZRowOf(zb, r)}

\* this step is a call that reached mac16
OuterIssued == IsOuter(call') /\ failed' = "none" /\ Len(issued') = 1

\* C2: the same call issued twice, the first with accumulate = false: the
\* destination rows (those of z_index's parity) then hold twice the
\* single-call result (mod 2^16) if the second call accumulates, and exactly
\* the single-call result if it does not.
C2_AccumulateTwice ==
  [][(/\ IsOuter(call) /\ failed = "none" /\ call.args[4] = FALSE
      /\ OuterIssued
      /\ call'.args[1] = call.args[1]
      /\ call'.args[2] = call.args[2]
      /\ call'.args[3] = call.args[3])
     => \A r \in 0 .. ZRows - 1 : \A i \in 0 .. 31 :
          r % 2 = call.args[3] % 2 =>
            Z16(z', r, i) = IF call'.args[4] THEN (2 * Z16(z, r, i)) % 65536
                            ELSE Z16(z, r, i)]_vars

C2_Witness ==
  /\ IsOuter(prev) /\ IsOuter(call) /\ failed = "none"
  /\ prev.args[4] = FALSE /\ call.args[4] = TRUE
  /\ <<prev.args[1], prev.args[2], prev.args[3]>> = <<0, 0, 1>>
  /\ <<call.args[1], call.args[2], call.args[3]>> = <<0, 0, 1>>
  /\ \E i \in 0 .. 31 : Z16(z, 1, i) # 0

\* C7 as stated: whatever the build, a call that violates a precondition
\* fails before mac16 is issued.
C7_Original ==
  (IsOuter(call) /\ ~ValidCall(call.args)) => (failed # "none" /\ issued = <<>>)

\* C7 as amended: in a build that keeps debug assertions, a call with a
\* present x offset >= 512, a present y offset >= 512 or z_index >= 64 fails
\* before mac16 is issued and leaves the register file unchanged; a call that
\* meets the preconditions (an absent offset counts as 0) never fails.
C7_DebugAssertsGuard ==
  [][IsOuter(call') =>
       /\ (debug /\ ~ValidCall(call'.args))
            => (failed' # "none" /\ issued' = <<>> /\ x' = x /\ y' = y /\ z' = z)
       /\ ValidCall(call'.args) => failed' = "none"
       /\ (call'.args[1] = None => failed' # "x_offset_bytes")
       /\ (call'.args[2] = None => failed' # "y_offset_bytes")]_vars

C7_Witness ==
  /\ debug /\ IsOuter(call) /\ call.args[1] = 512
  /\ failed = "x_offset_bytes" /\ issued = <<>>

\* C8: for arguments that meet the preconditions, the call leaves the same
\* register file as the call with z_index replaced by its least significant
\* bit.
C8_OnlyLsbOfZIndex ==
  [][(OuterIssued /\ ValidCall(call'.args)) =>
       /\ \A w \in {OperandWord(call'.args[1], call'.args[2],
                                call'.args[3] % 2, call'.args[4])} :
            z' = mac16(x, y, z, w)
       /\ x' = x /\ y' = y]_vars

C8_Witness ==
  /\ IsOuter(call) /\ failed = "none" /\ call.args[3] = 62
  /\ IsOuter(prev) /\ prev.args[3] = 1

\* C9 as stated: one call changes at most two Z rows.
C9_Original ==
  [][(OuterIssued /\ ValidCall(call'.args)) =>
       Cardinality(ChangedRows(z, z')) <= 2]_vars

\* C9 as amended: one call writes only the 32 Z rows whose index has
\* z_index's parity; every Z row of the other parity, and all of X and Y,
\* hold the same bytes after the call as before it.
C9_FrameOtherParity ==
  [][(OuterIssued /\ ValidCall(call'.args)) =>
       /\ \A r \in ChangedRows(z, z') : r % 2 = call'.args[3] % 2
       /\ x' = x /\ y' = y]_vars

C9_Witness ==
  /\ IsOuter(call) /\ failed = "none" /\ call.args[3] = 1 /\ call.args[4] = FALSE
  /\ prev = NoCall
  /\ \E i \in 0 .. 31 : Z16(z, 1, i) # Z16(Junk(1 + 9, FileBytes("z")), 1, i)
  /\ ZRowOf(z, 0) = ZRowOf(Junk(1 + 9, FileBytes("z")), 0)

-----------------------------------------------------------------------------
(* SpecOuter: the crate-level example.  Two i16 vectors are loaded into    *)
(* row 0 of X and of Y, their outer product is written to Z, and Z is read *)
(* back as [[i16; 32]; 64].                                                *)

DocX == [i \in 1 .. 32 |-> i]
DocY == [i \in 1 .. 32 |-> 50 + i]
\* pseudo-random i16 vectors over the whole range, negative values included
Vec(s) == [i \in 1 .. 32 |-> ((s * 7919 * i + s * s * 31 + i * i * 977) % 65536) - 32768]
Vecs == {DocX, DocY} \cup {Vec(s) : s \in 1 .. MaxVec}

\* std::mem::transmute::<[u8; 4096], [[i16; 32]; 64]>
TransmuteI16(bytes, r, i) ==
  ToI16(bytes[r * RowBytes + 2 * i] + 256 * bytes[r * RowBytes + 2 * i + 1])

InitOuter ==
  /\ debug = TRUE
  /\ x = Zero(FileBytes("x"))
  /\ y = Zero(FileBytes("y"))
  /\ z \in {Zero(FileBytes("z"))} \cup {Junk(s, FileBytes("z")) : s \in Seeds}
  /\ pc = "load_x"
  /\ Idle
  /\ \E xv \in Vecs, yv \in Vecs : inp = [xv |-> xv, yv |-> yv]

ExFrame == UNCHANGED <<debug, inp, ncalls, tctx, tpos>>

ExLoadX ==
  /\ pc = "load_x" /\ failed = "none"
  /\ load512("x", 0, I16Bytes(inp.xv))
  /\ pc' = "load_y" /\ ExFrame

ExLoadY ==
  /\ pc = "load_y" /\ failed = "none"
  /\ load512("y", 0, I16Bytes(inp.yv))
  /\ pc' = "outer" /\ ExFrame

ExOuter ==
  /\ pc = "outer" /\ failed = "none"
  /\ outer_product_i16_xy_to_z(0, 0, 0, FALSE)
  /\ pc' = "read_z" /\ ExFrame

ExReadZ ==
  /\ pc = "read_z" /\ failed = "none"
  /\ read_z
  /\ pc' = "assert" /\ ExFrame

\* the assert_eq! loop over z[y_i * 2][x_i]
ExAssert ==
  /\ pc = "assert" /\ failed = "none"
  /\ failed' = IF \A i \in 0 .. 31 : \A j \in 0 .. 31 :
                    TransmuteI16(ret, j * 2, i)
                      = WrappingMulI16(inp.xv[i + 1], inp.yv[j + 1])
               THEN "none" ELSE "assert_eq"
  /\ pc' = "done"
  /\ UNCHANGED <<x, y, z, call, prev, issued, ret, loaded>>
  /\ ExFrame

NextOuter == ExLoadX \/ ExLoadY \/ ExOuter \/ ExReadZ \/ ExAssert

SpecOuter == InitOuter /\ [][NextOuter]_vars

\* C1: after load512(x, XRow(0)), load512(y, YRow(0)) and
\* outer_product_i16_xy_to_z(Some(XBytes(0)), Some(YBytes(0)), ZRow(0), false),
\* read_z() seen as 64 rows of 32 i16 has z[2j][i] = x[i] * y[j] (wrapping)
\* for all i, j in 0..32, and the example's assertions pass.
C1_OuterProductExample ==
  /\ pc \in {"assert", "done"} =>
       \A i \in 0 .. 31 : \A j \in 0 .. 31 :
         TransmuteI16(ret, 2 * j, i) = WrappingMulI16(inp.xv[i + 1], inp.yv[j + 1])
  /\ failed = "none"

C1_Witness ==
  /\ pc = "done" /\ failed = "none"
  /\ inp.xv = Vec(1) /\ inp.yv = Vec(2)
  /\ loaded["z"][0] = <<>> /\ z[1 * RowBytes] # 0
  /\ \E i \in 1 .. 32 : \E j \in 1 .. 32 :
       /\ inp.xv[i] * inp.yv[j] # WrappingMulI16(inp.xv[i], inp.yv[j])
       /\ TransmuteI16(ret, 2 * (j - 1), i - 1) < 0

-----------------------------------------------------------------------------
(* SpecLoad: on the emulation backend (registers start at zero), up to     *)
(* MaxLoads load512 calls, then one whole-file read.                       *)

LoadBufs == {Junk(20, RowBytes), Junk(21, RowBytes)}
LoadTargets == {<<"x", 0>>, <<"x", 7>>, <<"y", 7>>, <<"y", 8>>,
                <<"z", 1>>, <<"z", 63>>}

InitLoad ==
  /\ debug = TRUE
  /\ x = Zero(FileBytes("x"))
  /\ y = Zero(FileBytes("y"))
  /\ z = Zero(FileBytes("z"))
  /\ pc = "loading"
  /\ inp = <<>>
  /\ Idle

LoadStep ==
  /\ pc = "loading" /\ failed = "none"
  /\ ncalls < MaxLoads
  /\ \E t \in LoadTargets, buf \in LoadBufs : load512(t[1], t[2], buf)
  /\ ncalls' = ncalls + 1
  /\ UNCHANGED <<debug, inp, pc, tctx, tpos>>

ReadXStep ==
  /\ pc = "loading" /\ failed = "none"
  /\ read_x
  /\ pc' = "done"
  /\ UNCHANGED <<debug, inp, ncalls, tctx, tpos>>

ReadYStep ==
  /\ pc = "loading" /\ failed = "none"
  /\ read_y
  /\ pc' = "done"
  /\ UNCHANGED <<debug, inp, ncalls, tctx, tpos>>

ReadZStep ==
  /\ pc = "loading" /\ failed = "none"
  /\ read_z
  /\ pc' = "done"
  /\ UNCHANGED <<debug, inp, ncalls, tctx, tpos>>

NextLoad == LoadStep \/ ReadXStep \/ ReadYStep \/ ReadZStep

SpecLoad == InitLoad /\ [][NextLoad]_vars

\* what a file holds according to the history of loads: per row, the 64
\* bytes most recently loaded, zero for a row never written
Image(file) ==
  [k \in 0 .. FileBytes(file) - 1 |->
     IF loaded[file][k \div RowBytes] = <<>> THEN 0
     ELSE loaded[file][k \div RowBytes][1][k % RowBytes]]

ReadOf(c) == IF c.op = "read_x" THEN "x" ELSE IF c.op = "read_y" THEN "y"
             ELSE IF c.op = "read_z" THEN "z" ELSE "none"

\* C5: after any sequence of load512 calls, read_x / read_y / read_z returns
\* the rows in increasing order, each the 64 bytes most recently loaded (zero
\* if never written), by one store512 per row in increasing row order, and
\* the register file still holds what the loads wrote.
C5_ReadConsistency ==
  /\ x = Image("x") /\ y = Image("y") /\ z = Image("z")
  /\ ReadOf(call) # "none" =>
       /\ ret = Image(ReadOf(call))
       /\ Len(issued) = Rows(ReadOf(call))
       /\ \A i \in 1 .. Len(issued) :
            issued[i] = [op |-> "st" \o ReadOf(call), arg |-> i - 1]

C5_Witness ==
  /\ call.op = "read_z" /\ failed = "none" /\ ncalls = 2
  /\ loaded["z"][63] # <<>> /\ loaded["z"][1] # <<>>
  /\ ret[63 * RowBytes + 5] # 0 /\ ret[1 * RowBytes + 5] # 0
  /\ ret[2 * RowBytes + 5] = 0

-----------------------------------------------------------------------------
(* SpecEnc: one outer-product call, over argument values that set every    *)
(* bit of every field alone and all together.                              *)

OffsetSamples == {None, 0, 511} \cup {Pow2(b) : b \in 0 .. 8}
ZIndexSamples == {0, 63} \cup {Pow2(b) : b \in 0 .. 5}
EncArgs == OffsetSamples \X OffsetSamples \X ZIndexSamples \X BOOLEAN

InitEnc ==
  /\ debug = TRUE
  /\ \E s \in Seeds :
       /\ x = Junk(s, FileBytes("x"))
       /\ y = Junk(s + 5, FileBytes("y"))
       /\ z = Junk(s + 9, FileBytes("z"))
  /\ pc = "encode"
  /\ inp = <<>>
  /\ Idle

EncCall ==
  /\ pc = "encode" /\ failed = "none"
  /\ \E a \in EncArgs : outer_product_i16_xy_to_z(a[1], a[2], a[3], a[4])
  /\ pc' = "done"
  /\ UNCHANGED <<debug, inp, ncalls, tctx, tpos>>

NextEnc == EncCall

SpecEnc == InitEnc /\ [][NextEnc]_vars

\* the arguments read back from an operand word
DecodeWord(w) ==
  << IF Bits(w, 28, 1) = 1 THEN None ELSE Bits(w, 10, 10),
     IF Bits(w, 29, 1) = 1 THEN None ELSE Bits(w, 0, 10),
     Bits(w, 20, 6),
     Bits(w, 27, 1) = 0 >>

\* C10: for arguments in range, the word passed to mac16 has the y offset
\* in bits 0-9, the x offset in bits 10-19, z_index in bits 20-25, bit 26
\* clear, bit 27 set exactly when accumulate is false, bit 28 exactly when
\* the x offset is absent (x field 0), bit 29 exactly when the y offset is
\* absent (y field 0), nothing above bit 29; decoding it gives the arguments
\* back.
C10_OperandWordLayout ==
  (IsOuter(call) /\ ValidCall(call.args)) =>
    /\ failed = "none"
    /\ Len(issued) = 1 /\ issued[1].op = "mac16"
    /\ \A w \in {issued[1].arg} :
         /\ Bits(w, 0, 10) = (IF call.args[2] = None THEN 0 ELSE call.args[2])
         /\ Bits(w, 10, 10) = (IF call.args[1] = None THEN 0 ELSE call.args[1])
         /\ Bits(w, 20, 6) = call.args[3]
         /\ Bits(w, 26, 1) = 0
         /\ (Bits(w, 27, 1) = 1) = (call.args[4] = FALSE)
         /\ (Bits(w, 28, 1) = 1) = (call.args[1] = None)
         /\ (Bits(w, 29, 1) = 1) = (call.args[2] = None)
         /\ w < Pow2(30)
         /\ DecodeWord(w) = call.args

C10_Witness ==
  /\ IsOuter(call) /\ failed = "none"
  /\ call.args = <<511, 256, 63, FALSE>>
  /\ issued[1].arg = 256 + 511 * 1024 + 63 * 1048576 + 134217728

-----------------------------------------------------------------------------
(* SpecLut: the property test qc_genlut_lut8x16, and a client that calls   *)
(* lut directly with the same arguments (overlapping ones included).       *)

\* fn overlaps(x: Range<usize>, y: Range<usize>) -> bool
overlaps(xs, xe, ys, ye) == xs < ye /\ xe > ys

\* the test's discard condition
Discarded(index_offset, table_row) ==
  \/ overlaps(index_offset, index_offset + 64, table_row * 64, table_row * 64 + 64)
  \/ overlaps(index_offset, index_offset + 64,
              table_row * 64 + 512, table_row * 64 + 64 + 512)

TableRows == 0 .. 7
OutRows == {0, 7}
IndexOffsets == 0 .. 511
\* the generated indices and values, and the bytes the registers start with
LutSeeds == {1}

\* indices.resize_with(32, ..) then indices.resize_with(64, ..)
TestIndices(s) ==
  [i \in 0 .. 63 |-> IF i < 32 THEN (s * 37 + i * 101 + i * i * 13) % 256 ELSE 0]
\* values.resize_with(64, ..)
TestValues(s) == [i \in 0 .. 63 |-> (s * 61 + i * 17 + 5) % 256]

\* index_row_1[sub..].copy_from_slice(&indices[..64 - sub])
IndexRow1(indices, sub) ==
  [k \in 0 .. 63 |-> IF k >= sub THEN indices[k - sub] ELSE 0]
\* index_row_2[..sub].copy_from_slice(&indices[64 - sub..])
IndexRow2(indices, sub) ==
  [k \in 0 .. 63 |-> IF k < sub THEN indices[64 - sub + k] ELSE 0]

\* the test's expected output
Expected(indices, values) ==
  [i \in 0 .. 63 |-> values[Bits(indices[i \div 2], (i % 2) * 4, 4)]]

InitLut ==
  /\ debug = TRUE
  /\ \E s \in LutSeeds :
       /\ x = Junk(s, FileBytes("x"))
       /\ y = Junk(s + 5, FileBytes("y"))
       /\ z = Junk(s + 9, FileBytes("z"))
       /\ \E t \in TableRows, o \in IndexOffsets, iy \in BOOLEAN, r \in OutRows :
            inp = [table_row |-> t, index_offset |-> o, indices_in_y |-> iy,
                   out_row |-> r, indices |-> TestIndices(s),
                   values |-> TestValues(s), got |-> <<>>]
  /\ pc = "start"
  /\ Idle

IdxFile == IF inp.indices_in_y THEN "y" ELSE "x"
LutFrame == UNCHANGED <<debug, ncalls, tctx, tpos>>
NoCallMade == UNCHANGED <<x, y, z, failed, call, prev, issued, ret, loaded>>

TestDiscard ==
  /\ pc = "start"
  /\ Discarded(inp.index_offset, inp.table_row)
  /\ pc' = "discarded"
  /\ NoCallMade /\ LutFrame /\ UNCHANGED inp

TestLoadIndex1 ==
  /\ pc = "start" /\ failed = "none"
  /\ ~Discarded(inp.index_offset, inp.table_row)
  /\ load512(IdxFile, inp.index_offset \div 64,
             IndexRow1(inp.indices, inp.index_offset % 64))
  /\ pc' = "load_index_2"
  /\ LutFrame /\ UNCHANGED inp

TestLoadIndex2 ==
  /\ pc = "load_index_2" /\ failed = "none"
  /\ load512(IdxFile, inp.index_offset \div 64 + 1,
             IndexRow2(inp.indices, inp.index_offset % 64))
  /\ pc' = "load_table"
  /\ LutFrame /\ UNCHANGED inp

TestLoadTable ==
  /\ pc = "load_table" /\ failed = "none"
  /\ load512("x", inp.table_row, inp.values)
  /\ pc' = "lut"
  /\ LutFrame /\ UNCHANGED inp

TestLut ==
  /\ pc = "lut" /\ failed = "none"
  /\ lut(inp.indices_in_y, inp.index_offset, inp.table_row, inp.out_row)
  /\ pc' = "store"
  /\ LutFrame /\ UNCHANGED inp

TestStore ==
  /\ pc = "store" /\ failed = "none"
  /\ store512("x", inp.out_row)
  /\ inp' = [inp EXCEPT !.got = ret']
  /\ pc' = "read_x"
  /\ LutFrame

TestReadX ==
  /\ pc = "read_x" /\ failed = "none"
  /\ read_x
  /\ pc' = "assert"
  /\ LutFrame /\ UNCHANGED inp

\* assert_eq!(got[..], expected[..])
TestAssert ==
  /\ pc = "assert" /\ failed = "none"
  /\ failed' = IF inp.got = Expected(inp.indices, inp.values)
               THEN "none" ELSE "assert_eq"
  /\ pc' = "passed"
  /\ UNCHANGED <<x, y, z, call, prev, issued, ret, loaded>>
  /\ LutFrame /\ UNCHANGED inp

\* a client that calls lut on the registers as they are
DirectLut ==
  /\ pc = "start" /\ failed = "none"
  /\ lut(inp.indices_in_y, inp.index_offset, inp.table_row, inp.out_row)
  /\ pc' = "direct"
  /\ LutFrame /\ UNCHANGED inp

NextLut ==
  \/ TestDiscard \/ TestLoadIndex1 \/ TestLoadIndex2 \/ TestLoadTable
  \/ TestLut \/ TestStore \/ TestReadX \/ TestAssert \/ DirectLut

SpecLut == InitLut /\ [][NextLut]_vars

\* the test ran to its comparison and the bytes stored from XRow(out_row)
\* are table[(indices[i / 2] >> (4 * (i % 2))) & 0xf] for all i in 0..64
LookupResultOk ==
  pc \in {"read_x", "assert", "passed"} =>
    \A i \in 0 .. 63 :
      inp.got[i] = inp.values[Bits(inp.indices[i \div 2], 4 * (i % 2), 4)]

\* C3 as stated: for every table_row, out_row, index source (X or Y) and
\* index byte offset in 0..512 that the overlap condition does not exclude,
\* loading the indices across rows index_offset/64 and index_offset/64 + 1,
\* loading the table, lut and store512 go through and yield the looked-up
\* bytes.
C3_Original ==
  pc \notin {"direct", "discarded"} => (failed = "none" /\ LookupResultOk)

\* the part of C3 that holds: index offsets whose second row,
\* index_offset/64 + 1, is a row of the 8-row file
LookupOkBelowLastRow ==
  (pc \notin {"direct", "discarded"} /\ inp.index_offset \div 64 + 1 < XRows)
    => (failed = "none" /\ LookupResultOk)

LookupOkBelowLastRowWitness ==
  /\ pc = "passed" /\ failed = "none"
  /\ inp.index_offset = 447 /\ inp.table_row = 5 /\ inp.out_row = 7
  /\ ~inp.indices_in_y

\* the index source's bytes and the table row's bytes, in both pages
IndexByteSet(offset) == offset .. offset + IndexBytes - 1
TableByteSet(table) ==
  (table * RowBytes .. table * RowBytes + RowBytes - 1)
    \cup (table * RowBytes + 512 .. table * RowBytes + 512 + RowBytes - 1)

\* C4: a lookup whose index-source byte range meets the table row's byte
\* range, or its copy 512 bytes above, is rejected before genlut is issued
\* and leaves the register file unchanged.
C4_OverlapRejected ==
  [][(/\ call'.op = "lut" /\ pc' \in {"store", "direct"} /\ pc' # pc
      /\ IndexByteSet(call'.args[2]) \cap TableByteSet(call'.args[3]) # {})
     => (/\ failed' = "lut_overlap" /\ issued' = <<>>
         /\ x' = x /\ y' = y /\ z' = z)]_vars

C4_Witness ==
  /\ pc = "direct" /\ call.op = "lut" /\ failed = "lut_overlap"
  /\ inp.index_offset = 500 /\ inp.table_row = 0
  /\ issued = <<>>

-----------------------------------------------------------------------------
(* SpecStress: the multithreaded example.  Every thread creates its own    *)
(* context and issues outer_product_i16_xy_to_z(Some(XBytes(0)),           *)
(* Some(YBytes(0)), ZRow(0 or 1, alternating), true) in a loop; the model  *)
(* stops each thread after MaxIter calls.                                  *)

Threads == 0 .. MaxThreads - 1

\* the registers thread t finds in its fresh context
FreshCtx(t) ==
  [x |-> Junk(3 * t + 1, FileBytes("x")),
   y |-> Junk(3 * t + 2, FileBytes("y")),
   z |-> Junk(3 * t + 3, FileBytes("z"))]

\* ZRow of the k-th call of the loop body (k from 0)
StressZRow(k) == k % 2

\* one call of the loop body on the context c
StressCall(c, dbg, k) ==
  IF OuterAsserts(dbg, 0, 0, StressZRow(k)) = "none"
  THEN [c EXCEPT !.z = mac16(c.x, c.y, c.z, OperandWord(0, 0, StressZRow(k), TRUE))]
  ELSE c

InitStress ==
  /\ debug = TRUE
  /\ x = <<>> /\ y = <<>> /\ z = <<>>
  /\ failed = "none" /\ call = NoCall /\ prev = NoCall
  /\ issued = <<>> /\ ret = <<>> /\ loaded = <<>>
  /\ inp = [t \in Threads |-> FreshCtx(t)]
  /\ pc = "stress" /\ ncalls = 0
  /\ tctx = [t \in Threads |-> FreshCtx(t)]
  /\ tpos = [t \in Threads |-> 0]

\* mutant: every thread works on the context of thread 0
StressStepShared(t) ==
  /\ failed = "none"
  /\ tpos[t] < MaxIter
  /\ tctx' = [tctx EXCEPT ![0] = StressCall(tctx[0], debug, tpos[t])]
  /\ failed' = OuterAsserts(debug, 0, 0, StressZRow(tpos[t]))
  /\ tpos' = [tpos EXCEPT ![t] = tpos[t] + 1]
  /\ UNCHANGED <<x, y, z, debug, call, prev, issued, ret, loaded, inp, pc, ncalls>>

\* thread t makes its next call on its own context
StressStep(t) ==
  /\ failed = "none"
  /\ tpos[t] < MaxIter
  /\ tctx' = [tctx EXCEPT ![t] = StressCall(tctx[t], debug, tpos[t])]
  /\ failed' = OuterAsserts(debug, 0, 0, StressZRow(tpos[t]))
  /\ tpos' = [tpos EXCEPT ![t] = tpos[t] + 1]
  /\ UNCHANGED <<x, y, z, debug, call, prev, issued, ret, loaded, inp, pc, ncalls>>

NextStress == \E t \in Threads : StressStep(t)

SpecStress == InitStress /\ [][NextStress]_vars

\* calls among the first k of the loop that write the rows of parity p
CallsOnParity(k, p) == (k + 1 - p) \div 2

\* what thread t's context holds after k calls of its own, run alone, when
\* it found the registers f in its fresh context: X and Y as found, and each
\* lane of Z raised by x[i] * y[j] once per call made on its row
AloneAfter(f, k, c) ==
  /\ c.x = f.x
  /\ c.y = f.y
  /\ \A r \in 0 .. ZRows - 1 : \A i \in 0 .. 31 :
       Z16(c.z, r, i) =
         (Z16(f.z, r, i)
            + CallsOnParity(k, r % 2)
                * MulWrap16(Word16(f.x, 2 * i, 512),
                            Word16(f.y, 2 * (r \div 2), 512))) % 65536

StressIndependent ==
  /\ failed = "none"
  /\ \A t \in Threads : \A c \in {tctx[t]} : AloneAfter(inp[t], tpos[t], c)

====
